---- MODULE Spec2Model ----
(***************************************************************************)
(* A model of the carry-forward plugin (src/main.ts): the command          *)
(* copyForwardLines in its four modes, the asynchronous clipboard write     *)
(* it starts, and the settings panel.                                       *)
(*                                                                          *)
(* Text is a sequence of one-character strings; line numbers and columns    *)
(* are 0-based as in the editor API, sequences are 1-based.                 *)
(***************************************************************************)
EXTENDS Integers, Sequences, FiniteSets, TLC

VARIABLES
  doc,            \* the editor's lines
  selection,      \* [from, to]: the editor's selection, from <= to
  settings,       \* plugin.settings
  savedData,      \* <<record>>: the settings the host has persisted
  saving,         \* the settings handed to the saveData calls whose promise is not settled
  savesResolved,  \* number of saveData promises that resolved
  savesRejected,  \* number of saveData promises that rejected
  pending,        \* texts of the clipboard writes whose promise is not settled
  clipboard,      \* <<>> or <<text>>: the system clipboard
  resolved,       \* number of clipboard promises that resolved
  rejected,       \* number of clipboard promises that rejected
  copiedNotices,  \* number of "Copied" notices shown
  errorNotices,   \* the texts of the error notices shown
  transactions,   \* number of editor.transaction calls
  last,           \* history: what the last invocation of copyForwardLines saw and produced
  minted,         \* history: per line, the anchors minted for it and the line each left
  displayed,      \* the settings panel has been built by display()
  invalidClass,   \* fromToEl carries the class "invalid"
  lastEdit        \* history: the field and value of the last onChange of the panel and
                  \* the settings it handed to saveData

vars == <<doc, selection, settings, savedData, saving, savesResolved, savesRejected, pending, clipboard, resolved, rejected,
          copiedNotices, errorNotices, transactions, last, minted, displayed, invalidClass,
          lastEdit>>

editorVars == <<doc, selection, pending, clipboard, resolved, rejected, copiedNotices,
                errorNotices, transactions, last, minted>>

panelVars == <<displayed, invalidClass, lastEdit>>

saveVars == <<savedData, saving, savesResolved, savesRejected>>

----------------------------------------------------------------------------
(* Bounds *)

\* The longest document drawn
MaxLines == 3

\* The most invocations of a command in one behaviour of SpecRepeat
MaxForwards == 2

\* The most edits of the settings panel in one behaviour of SpecSettings
MaxEdits == 2

----------------------------------------------------------------------------
(* Text helpers: the String methods and regular expressions the code uses *)

\* \s, restricted to the whitespace characters that occur in the model
IsSpace(c) == c \in {" ", "\t"}

Lower == {"a","b","c","d","e","f","g","h","i","j","k","l","m",
          "n","o","p","q","r","s","t","u","v","w","x","y","z"}

Upper == {"A","B","C","D","E","F","G","H","I","J","K","L","M",
          "N","O","P","Q","R","S","T","U","V","W","X","Y","Z"}

Digits == {"0","1","2","3","4","5","6","7","8","9"}

\* const characters = "abcdefghijklmnopqrstuvwxyz-0123456789"
characters == Lower \cup {"-"} \cup Digits

IDLength == 5

\* The ids of the default length over `characters` that the model draws
IDSamples == { <<"a","b","-","1","2">>, <<"-","z","9","-","-">> }

genID == { id \in IDSamples : Len(id) = IDLength /\ \A i \in 1..Len(id) : id[i] \in characters }

\* Mutant of IsBlockIDChar: the class without the hyphen, [a-zA-Z0-9]
IsBlockIDCharNoHyphen(c) == c \in Lower \cup Upper \cup Digits

\* [a-zA-Z0-9-]
IsBlockIDChar(c) == c \in Lower \cup Upper \cup Digits \cup {"-"}

\* String.prototype.slice(start, end)
slice(s, start, end) ==
  LET n == Len(s)
      a == IF start < 0 THEN (IF n + start < 0 THEN 0 ELSE n + start)
                        ELSE (IF start > n THEN n ELSE start)
      b == IF end < 0 THEN (IF n + end < 0 THEN 0 ELSE n + end)
                      ELSE (IF end > n THEN n ELSE end)
  IN SubSeq(s, a + 1, b)

\* /^\s*$/
IsBlank(s) == \A i \in 1..Len(s) : IsSpace(s[i])

\* Number of leading whitespace characters
LeadingSpace(s) ==
  LET stops == { i \in 1..Len(s) : ~IsSpace(s[i]) }
  IN IF stops = {} THEN Len(s) ELSE (CHOOSE i \in stops : \A j \in stops : i <= j) - 1

\* Number of trailing whitespace characters
TrailingSpace(s) ==
  LET stops == { i \in 1..Len(s) : ~IsSpace(s[i]) }
  IN IF stops = {} THEN Len(s) ELSE Len(s) - (CHOOSE i \in stops : \A j \in stops : i >= j)

\* s.replace(/^\s*/, '')
TrimStart(s) == SubSeq(s, LeadingSpace(s) + 1, Len(s))

\* s.replace(/\s*?$/, r) and s.replace(/\s*$/u, r): the first match is the whole
\* trailing whitespace run (empty at the end of the text when there is none)
ReplaceTrailingSpace(s, r) == SubSeq(s, 1, Len(s) - TrailingSpace(s)) \o r

\* Start (1-based) of the match of /(?<=[\s^])\^[a-zA-Z0-9-]+$/u in s, 0 if none.
\* [\s^] is a character class: a whitespace character or a literal caret.
blockIDRegex(s) ==
  LET starts == { i \in 2..(Len(s) - 1) :
                    /\ s[i] = "^"
                    /\ (IsSpace(s[i - 1]) \/ s[i - 1] = "^")
                    /\ \A j \in (i + 1)..Len(s) : IsBlockIDChar(s[j]) }
  IN IF starts = {} THEN 0 ELSE CHOOSE i \in starts : \A j \in starts : i <= j

\* line.match(blockIDRegex) converted to text by `${blockID}`: the matched text
MatchText(s) == SubSeq(s, blockIDRegex(s), Len(s))

\* s.replace(blockIDRegex, "")
StripBlockID(s) == IF blockIDRegex(s) = 0 THEN s ELSE SubSeq(s, 1, blockIDRegex(s) - 1)

\* t occurs in s at position i (1-based)
OccursAt(s, t, i) == i >= 1 /\ i + Len(t) - 1 <= Len(s) /\ SubSeq(s, i, i + Len(t) - 1) = t

\* First position of t in s, 0 if none
IndexOf(s, t) ==
  LET at == { i \in 1..(Len(s) + 1) : OccursAt(s, t, i) }
  IN IF at = {} THEN 0 ELSE CHOOSE i \in at : \A j \in at : i <= j

\* s.replace(t, r) for a pattern that matches the literal text t
ReplaceFirstLiteral(s, t, r) ==
  LET i == IndexOf(s, t)
  IN IF i = 0 THEN s ELSE SubSeq(s, 1, i - 1) \o r \o SubSeq(s, i + Len(t), Len(s))

\* link.replace(/]]$/, "")
StripClose(link) ==
  IF Len(link) >= 2 /\ SubSeq(link, Len(link) - 1, Len(link)) = <<"]", "]">>
  THEN SubSeq(link, 1, Len(link) - 2) ELSE link

\* template.replace(/{{LINK(\|?.*)}}/, `${link.replace(/]]$/, "")}$1]]`)
\* The match starts at the first "{{LINK" that a "}}" follows and, .* being
\* greedy, ends at the last "}}" of the template.
SubstituteLink(template, link) ==
  LET open == <<"{", "{", "L", "I", "N", "K">>
      close == <<"}", "}">>
      closes(i) == { j \in (i + Len(open))..Len(template) : OccursAt(template, close, j) }
      opens == { i \in 1..Len(template) : OccursAt(template, open, i) /\ closes(i) # {} }
  IN IF opens = {} THEN template
     ELSE LET i == CHOOSE x \in opens : \A y \in opens : x <= y
              j == CHOOSE x \in closes(i) : \A y \in closes(i) : x >= y
          IN SubSeq(template, 1, i - 1)
               \o StripClose(link) \o SubSeq(template, i + Len(open), j - 1) \o <<"]", "]">>
               \o SubSeq(template, j + Len(close), Len(template))

\* lines.join("\n")
RECURSIVE join(_)
join(lines) ==
  IF lines = <<>> THEN <<>>
  ELSE IF Len(lines) = 1 THEN lines[1]
  ELSE lines[1] \o <<"\n">> \o join(Tail(lines))

\* The lines of a text: the inverse of join, as the editor stores a replacement
RECURSIVE splitLines(_)
splitLines(text) ==
  LET i == IndexOf(text, <<"\n">>)
  IN IF i = 0 THEN <<text>>
     ELSE <<SubSeq(text, 1, i - 1)>> \o splitLines(SubSeq(text, i + 1, Len(text)))

\* s.replace(/t/g, r) for a pattern that matches the literal text t
RECURSIVE ReplaceAllLiteral(_, _, _)
ReplaceAllLiteral(s, t, r) ==
  LET i == IndexOf(s, t)
  IN IF i = 0 THEN s
     ELSE SubSeq(s, 1, i - 1) \o r \o ReplaceAllLiteral(SubSeq(s, i + Len(t), Len(s)), t, r)

----------------------------------------------------------------------------
(* Settings *)

DEFAULT_SETTINGS ==
  [ linkText |-> <<>>,
    copiedLinkText |-> <<"(","s","e","e"," ","{","{","L","I","N","K","}","}",")">>,
    lineFormatFrom |-> <<"\\","s","*","$">>,
    lineFormatTo |-> <<" ","(","s","e","e"," ","{","{","L","I","N","K","}","}",")">>,
    removeLeadingWhitespace |-> TRUE ]

\* The pattern sources the model draws for lineFormatFrom:
\*   \s*$   the default
\*   o      a literal
\*   \\n    an escaped backslash followed by n
\*   [abc   an unterminated character class
PatternSamples ==
  { <<"\\","s","*","$">>, <<"o">>, <<"\\","\\","n">>, <<"[","a","b","c">> }

\* new RegExp(source, "u") does not throw. A table over the sources the model
\* meets: PatternSamples, and what validateRegex makes of them (in \\n it
\* replaces the last two characters by a line feed, and a backslash before a
\* line feed is no escape of Unicode mode).
RegExpCompiles(source) ==
  source \in { <<"\\","s","*","$">>, <<"o">>, <<"\\","\\","n">> }

\* text.replace(new RegExp(source, "u"), replacement), for the sources of
\* PatternSamples that compile (copyForwardLines returns at line 58 for the others)
RegExpReplace(text, source, replacement) ==
  IF source = <<"\\","s","*","$">> THEN ReplaceTrailingSpace(text, replacement)
  ELSE IF source = <<"o">> THEN ReplaceFirstLiteral(text, <<"o">>, replacement)
  ELSE IF source = <<"\\","\\","n">> THEN ReplaceFirstLiteral(text, <<"\\","n">>, replacement)
  ELSE text

\* `${e}` for the error new RegExp(source, "u") throws, for the sources the model
\* meets that do not compile: the unterminated class, and the backslash before a
\* line feed that validateRegex makes of \\n
RegExpError(source) ==
  <<"S","y","n","t","a","x","E","r","r","o","r",":"," ","I","n","v","a","l","i","d"," ",
    "r","e","g","u","l","a","r"," ","e","x","p","r","e","s","s","i","o","n",":"," ","/">>
    \o source \o <<"/","u",":"," ">>
    \o (IF source = <<"[","a","b","c">>
        THEN <<"U","n","t","e","r","m","i","n","a","t","e","d"," ","c","h","a","r","a",
               "c","t","e","r"," ","c","l","a","s","s">>
        ELSE <<"I","n","v","a","l","i","d"," ","e","s","c","a","p","e">>)

\* Mutant of validateRegex: the pattern is not compiled
validateRegexUnchecked(regexString) == [ valid |-> TRUE, string |-> regexString ]

validateRegex(regexString) ==
  LET updatedRegexString ==
        ReplaceAllLiteral(
          ReplaceAllLiteral(
            ReplaceAllLiteral(regexString, <<"\\","n">>, <<"\n">>),
            <<"\\","t">>, <<"\t">>),
          <<"\\","r">>, <<"\r">>)
  IN IF RegExpCompiles(updatedRegexString)
     THEN [ valid |-> TRUE, string |-> updatedRegexString ]
     ELSE [ valid |-> FALSE,
            string |-> <<"\"">> \o updatedRegexString \o <<"\"",":"," ","\"">>
                         \o RegExpError(updatedRegexString) \o <<"\"">> ]

----------------------------------------------------------------------------
(* copyForwardLines *)

CopyTypes == {"SeparateLines", "CombinedLines", "LinkOnly", "LinkOnlyEmbed"}

\* view.file
file == <<"n">>

\* view.app.fileManager.generateMarkdownLink(file, "/", subpath, alias): the
\* host's formatter, taken with its wikilink output [[file#^id]] / [[file#^id|alias]]
generateMarkdownLink(f, subpath, alias) ==
  <<"[", "[">> \o f \o subpath
    \o (IF alias = <<>> THEN <<>> ELSE <<"|">> \o alias) \o <<"]", "]">>

cursorFrom == selection.from
cursorTo == selection.to
minLine == cursorFrom.line
maxLine == cursorTo.line

getLine(lineNumber) == doc[lineNumber + 1]

\* Lines 76-92: the copy slice of a line
CopySlice(lineNumber) ==
  LET line == getLine(lineNumber)
      copiedLine ==
        IF settings.removeLeadingWhitespace = TRUE
             /\ (lineNumber = minLine /\ cursorFrom.ch = cursorTo.ch)
        THEN TrimStart(line) ELSE line
  IN IF (lineNumber = minLine \/ lineNumber = maxLine)
          /\ ~(minLine = maxLine /\ cursorFrom.ch = cursorTo.ch)
     THEN slice(line,
                IF lineNumber = minLine THEN cursorFrom.ch ELSE 0,
                IF lineNumber = maxLine THEN cursorTo.ch ELSE Len(line) - 1)
     ELSE copiedLine

\* Lines 94-97: the blank-line shortcut is taken
BlankShortcut(lineNumber) ==
  IsBlank(getLine(lineNumber)) /\ ~(lineNumber = minLine /\ minLine = maxLine)

\* Line 103: the line goes through the anchor/link step
AnchorStep(lineNumber, copy) == copy = "SeparateLines" \/ lineNumber = minLine

\* Lines 117-127 and 137-149: the copied line, given the link
CopiedWithLink(copiedLine, link, copy) ==
  IF copy = "LinkOnly" \/ copy = "LinkOnlyEmbed"
  THEN LET embedLink == (IF copy = "LinkOnlyEmbed" THEN <<"!">> ELSE <<>>) \o link
       IN IF copy = "LinkOnlyEmbed" THEN embedLink
          ELSE SubstituteLink(settings.copiedLinkText, embedLink)
  ELSE RegExpReplace(copiedLine, settings.lineFormatFrom,
                     SubstituteLink(settings.lineFormatTo, link))

\* Lines 154-161: the copied line is pushed
Pushes(lineNumber, copy) ==
  ~((copy = "LinkOnly" \/ copy = "LinkOnlyEmbed") /\ lineNumber # minLine)

\* One iteration of the loop of lines 75-163 with genID() returning id:
\*   slice     the copy slice of lines 76-92
\*   line      what is pushed on updatedLines
\*   copied    what is pushed on copiedLines (<<>> when nothing is)
\*   request   the subpath the link is requested with (<<>> when no link is)
\*   newID     the anchor minted (<<>> when none is)
ProcessLine(lineNumber, copy, id) ==
  LET line == getLine(lineNumber)
      copiedLine == CopySlice(lineNumber)
  IN IF BlankShortcut(lineNumber)
     THEN [ slice |-> copiedLine, line |-> line, copied |-> <<copiedLine>>,
            request |-> <<>>, newID |-> <<>> ]
     ELSE IF AnchorStep(lineNumber, copy)
     THEN IF blockIDRegex(line) = 0
          THEN LET newID == <<"^">> \o id
                   link == generateMarkdownLink(file, <<"#">> \o newID, settings.linkText)
               IN [ slice |-> copiedLine,
                    line |-> ReplaceTrailingSpace(line, <<" ">> \o newID),
                    copied |-> IF Pushes(lineNumber, copy)
                               THEN <<CopiedWithLink(copiedLine, link, copy)>> ELSE <<>>,
                    request |-> <<<<"#">> \o newID>>,
                    newID |-> <<newID>> ]
          ELSE LET blockID == MatchText(line)
                   link == generateMarkdownLink(file, <<"#">> \o blockID, settings.linkText)
               IN [ slice |-> copiedLine,
                    line |-> line,
                    copied |-> IF Pushes(lineNumber, copy)
                               THEN <<CopiedWithLink(StripBlockID(copiedLine), link, copy)>>
                               ELSE <<>>,
                    request |-> <<<<"#">> \o blockID>>,
                    newID |-> <<>> ]
     ELSE [ slice |-> copiedLine,
            line |-> line,
            copied |-> IF Pushes(lineNumber, copy) THEN <<copiedLine>> ELSE <<>>,
            request |-> <<>>, newID |-> <<>> ]

\* The lines for which the loop calls genID() (line 109)
MintingLines(copy) ==
  { n \in minLine..maxLine :
      ~BlankShortcut(n) /\ AnchorStep(n, copy) /\ blockIDRegex(getLine(n)) = 0 }

\* The loop of lines 75-163 from lineNumber on: the results in order, ids[n]
\* being what genID() returns for line n
RECURSIVE Processed(_, _, _)
Processed(lineNumber, copy, ids) ==
  IF lineNumber > maxLine THEN <<>>
  ELSE <<ProcessLine(lineNumber, copy,
                     IF lineNumber \in DOMAIN ids THEN ids[lineNumber] ELSE <<>>)>>
         \o Processed(lineNumber + 1, copy, ids)

updatedLines(results) == [ k \in 1..Len(results) |-> results[k].line ]

RECURSIVE copiedLines(_)
copiedLines(results) ==
  IF results = <<>> THEN <<>> ELSE results[1].copied \o copiedLines(Tail(results))

\* Mutant of ApplyChange: the change ends at the start of line toLine
ApplyChangeToLineStart(d, fromLine, toLine, text) ==
  SubSeq(d, 1, fromLine) \o splitLines(text \o d[toLine + 1]) \o SubSeq(d, toLine + 2, Len(d))

\* editor.transaction with the one change of lines 169-173: the text from
\* (fromLine, 0) to the end of line toLine is replaced by text
ApplyChange(d, fromLine, toLine, text) ==
  SubSeq(d, 1, fromLine) \o splitLines(text) \o SubSeq(d, toLine + 2, Len(d))

\* Lines 165-167: navigator.clipboard.writeText(text) starts a write
StartWrite(writes, text) == Append(writes, text)

\* Mutant of NoticesAfterWriteStarted: the notice does not wait for the promise
NoticesAtWriteStart(n) == n + 1

\* Lines 165-167: the "Copied" notices shown when writeText has returned its
\* promise: the notice waits for the promise
NoticesAfterWriteStarted(n) == n

\* Lines 54-57: the text of the error notice
ErrorNotice(string) ==
  <<"E","r","r","o","r",":"," ","'","F","r","o","m","'"," ","s","e","t","t","i","n","g",
    " ","i","s"," ","i","n","v","a","l","i","d",":","\n","\n">>
    \o string
    \o <<"\n","\n","P","l","e","a","s","e"," ","u","p","d","a","t","e"," ","t","h","e",
         " ","C","a","r","r","y","-","F","o","r","w","a","r","d"," ","s","e","t","t",
         "i","n","g","s"," ","a","n","d"," ","t","r","y"," ","a","g","a","i","n",".">>

\* Number of invocations of copyForwardLines so far
Invocations == transactions + Len(errorNotices)

NoRun ==
  [ ran |-> FALSE, aborted |-> FALSE, copy |-> "none", doc |-> <<>>,
    selection |-> [ from |-> [line |-> 0, ch |-> 0], to |-> [line |-> 0, ch |-> 0] ],
    copiedLines |-> <<>>, results |-> <<>> ]

copyForwardLines(copy) ==
  /\ LET regexValidation == validateRegex(settings.lineFormatFrom)
     IN IF regexValidation.valid # TRUE
        THEN /\ errorNotices' = Append(errorNotices, ErrorNotice(regexValidation.string))
             /\ last' = [ NoRun EXCEPT !.ran = TRUE, !.aborted = TRUE, !.copy = copy,
                                       !.doc = doc, !.selection = selection ]
             /\ UNCHANGED <<doc, selection, pending, transactions, minted, copiedNotices>>
        ELSE \E ids \in [MintingLines(copy) -> genID] :
               LET results == Processed(minLine, copy, ids)
               IN /\ pending' = StartWrite(pending, join(copiedLines(results)))
                  /\ doc' = ApplyChange(doc, minLine, maxLine, join(updatedLines(results)))
                  /\ selection' = [ from |-> cursorFrom, to |-> cursorTo ]
                  /\ transactions' = transactions + 1
                  /\ minted' = [ l \in DOMAIN minted |->
                                   IF l - 1 \in minLine..maxLine
                                   THEN minted[l] \o
                                        [ i \in 1..Len(results[l - minLine].newID) |->
                                            [ newID |-> results[l - minLine].newID[i],
                                              line |-> results[l - minLine].line ] ]
                                   ELSE minted[l] ]
                  /\ copiedNotices' = NoticesAfterWriteStarted(copiedNotices)
                  /\ last' = [ ran |-> TRUE, aborted |-> FALSE, copy |-> copy, doc |-> doc,
                               selection |-> selection,
                               copiedLines |-> copiedLines(results), results |-> results ]
                  /\ UNCHANGED errorNotices
  /\ UNCHANGED <<settings, clipboard, resolved, rejected>>
  /\ UNCHANGED saveVars
  /\ UNCHANGED panelVars

\* The promise of a clipboard write resolves: the callback of line 166 runs
ClipboardResolve ==
  /\ pending # <<>>
  /\ \E i \in 1..Len(pending) :
       /\ clipboard' = <<pending[i]>>
       /\ pending' = SubSeq(pending, 1, i - 1) \o SubSeq(pending, i + 1, Len(pending))
  /\ resolved' = resolved + 1
  /\ copiedNotices' = copiedNotices + 1
  /\ UNCHANGED saveVars
  /\ UNCHANGED <<doc, selection, settings, rejected, errorNotices,
                 transactions, last, minted>>
  /\ UNCHANGED panelVars

\* The promise of a clipboard write rejects: no handler is attached
ClipboardReject ==
  /\ pending # <<>>
  /\ \E i \in 1..Len(pending) :
       pending' = SubSeq(pending, 1, i - 1) \o SubSeq(pending, i + 1, Len(pending))
  /\ rejected' = rejected + 1
  /\ UNCHANGED saveVars
  /\ UNCHANGED <<doc, selection, settings, clipboard, resolved, copiedNotices,
                 errorNotices, transactions, last, minted>>
  /\ UNCHANGED panelVars

----------------------------------------------------------------------------
(* Initial states *)

\* The lines documents are drawn from: text, text, a blank line, a line that is
\* one anchor token, an anchor token after whitespace, a list item with
\* whitespace on both sides
LineSamples ==
  << <<"f","o","o">>, <<"b","a","r">>, <<" ">>, <<"^","a","b">>, <<" ","^","a","b">>,
     <<" ","-"," ","x"," ">> >>

\* The documents drawn: up to MaxLines consecutive lines of LineSamples, taken
\* cyclically from any of them
Docs ==
  { [ i \in 1..n |-> LineSamples[((start + i - 2) % Len(LineSamples)) + 1] ] :
      start \in 1..Len(LineSamples), n \in 1..MaxLines }

Positions(d) ==
  UNION { { [line |-> l, ch |-> c] : c \in 0..Len(d[l + 1]) } : l \in 0..(Len(d) - 1) }

Before(p, q) == p.line < q.line \/ (p.line = q.line /\ p.ch <= q.ch)

\* editor.getCursor("from") is never after editor.getCursor("to")
Selections(d) ==
  { s \in [from : Positions(d), to : Positions(d)] : Before(s.from, s.to) }

SettingsSamples ==
  { DEFAULT_SETTINGS,
    [DEFAULT_SETTINGS EXCEPT !.removeLeadingWhitespace = FALSE],
    [DEFAULT_SETTINGS EXCEPT !.lineFormatFrom = <<"[","a","b","c">>],
    [DEFAULT_SETTINGS EXCEPT !.linkText = <<"t">>,
                             !.copiedLinkText = <<"{","{","L","I","N","K","|","x","}","}">>,
                             !.lineFormatFrom = <<"o">>,
                             !.lineFormatTo = <<"{","{","L","I","N","K","}","}">>] }

NoEdit == [ field |-> "none", value |-> <<>>, saved |-> <<>> ]

\* What does not depend on the inputs drawn
InitRest ==
  /\ savedData = <<settings>>
  /\ saving = <<>>
  /\ savesResolved = 0
  /\ savesRejected = 0
  /\ pending = <<>>
  /\ clipboard = <<>>
  /\ resolved = 0
  /\ rejected = 0
  /\ copiedNotices = 0
  /\ errorNotices = <<>>
  /\ transactions = 0
  /\ last = NoRun
  /\ minted = [ l \in 1..Len(doc) |-> <<>> ]
  /\ displayed = FALSE
  /\ invalidClass = FALSE
  /\ lastEdit = NoEdit

\* One command on any document, selection and settings drawn
Init ==
  /\ doc \in Docs
  /\ selection \in Selections(doc)
  /\ settings \in SettingsSamples
  /\ InitRest

ForwardOnce ==
  /\ last.ran = FALSE
  /\ \E copy \in CopyTypes : copyForwardLines(copy)

Next ==
  \/ ForwardOnce
  \/ ClipboardResolve
  \/ ClipboardReject

Spec == Init /\ [][Next]_vars

\* Whole-line selections and collapsed cursors at the start of a line
LineSelections(d) ==
  { s \in Selections(d) :
      /\ s.from.ch = 0
      /\ s.to.ch = Len(d[s.to.line + 1]) \/ (s.to = s.from) }

\* Commands repeated on a document, with the default settings. A command reads
\* nothing that the settling of a clipboard write changes: the writes stay
\* pending here, and Spec settles them.
InitRepeat ==
  /\ doc \in Docs
  /\ selection \in LineSelections(doc)
  /\ settings = DEFAULT_SETTINGS
  /\ InitRest

ForwardAgain ==
  /\ Invocations < MaxForwards
  /\ \E copy \in CopyTypes : copyForwardLines(copy)

NextRepeat == ForwardAgain

SpecRepeat == InitRepeat /\ [][NextRepeat]_vars

----------------------------------------------------------------------------
(* The settings panel: CarryForwardSettingTab.display and its onChange handlers *)

\* saveSettings: saveData(this.settings) is called with the settings as they are
\* and returns a promise; the handler awaits it as its last statement
saveSettings(saves, s) == Append(saves, s)

\* The promise of a saveData call resolves: the host has persisted the settings
\* it was handed
SaveResolve ==
  /\ saving # <<>>
  /\ \E i \in 1..Len(saving) :
       /\ savedData' = <<saving[i]>>
       /\ saving' = SubSeq(saving, 1, i - 1) \o SubSeq(saving, i + 1, Len(saving))
  /\ savesResolved' = savesResolved + 1
  /\ UNCHANGED <<settings, savesRejected>>
  /\ UNCHANGED panelVars
  /\ UNCHANGED editorVars

\* The promise of a saveData call rejects: the handler's promise rejects with
\* it, nothing is persisted and the stored settings stay
SaveReject ==
  /\ saving # <<>>
  /\ \E i \in 1..Len(saving) :
       saving' = SubSeq(saving, 1, i - 1) \o SubSeq(saving, i + 1, Len(saving))
  /\ savesRejected' = savesRejected + 1
  /\ UNCHANGED <<settings, savedData, savesResolved>>
  /\ UNCHANGED panelVars
  /\ UNCHANGED editorVars

\* display(): the panel is rebuilt; fromToEl is a new element, given the class
\* "invalid" when the stored pattern does not validate
display ==
  /\ displayed' = TRUE
  /\ invalidClass' = (validateRegex(settings.lineFormatFrom).valid # TRUE)
  /\ UNCHANGED <<settings, lastEdit>>
  /\ UNCHANGED saveVars
  /\ UNCHANGED editorVars

\* Lines 298-301
ChangeLinkText(value) ==
  /\ displayed
  /\ settings' = [settings EXCEPT !.linkText = value]
  /\ saving' = saveSettings(saving, settings')
  /\ lastEdit' = [ field |-> "linkText", value |-> value, saved |-> <<settings'>> ]
  /\ UNCHANGED <<savedData, savesResolved, savesRejected>>
  /\ UNCHANGED <<displayed, invalidClass>>
  /\ UNCHANGED editorVars

\* Line 312: what the "Copied text" handler stores
StoredCopiedLinkText(value) == value

\* Lines 311-314
ChangeCopiedLinkText(value) ==
  /\ displayed
  /\ settings' = [settings EXCEPT !.copiedLinkText = StoredCopiedLinkText(value)]
  /\ saving' = saveSettings(saving, settings')
  /\ lastEdit' = [ field |-> "copiedLinkText", value |-> value, saved |-> <<settings'>> ]
  /\ UNCHANGED <<savedData, savesResolved, savesRejected>>
  /\ UNCHANGED <<displayed, invalidClass>>
  /\ UNCHANGED editorVars

\* Lines 336-346: what the "From" handler stores
StoredLineFormatFrom(value) ==
  IF value = <<>> THEN DEFAULT_SETTINGS.lineFormatFrom ELSE value

\* Lines 336-346: the class "invalid" after the "From" handler
InvalidClassAfterFrom(value, class) ==
  IF value = <<>> THEN class ELSE (validateRegex(value).valid # TRUE)

\* Lines 335-348
ChangeLineFormatFrom(value) ==
  /\ displayed
  /\ invalidClass' = InvalidClassAfterFrom(value, invalidClass)
  /\ settings' = [settings EXCEPT !.lineFormatFrom = StoredLineFormatFrom(value)]
  /\ saving' = saveSettings(saving, settings')
  /\ lastEdit' = [ field |-> "lineFormatFrom", value |-> value, saved |-> <<settings'>> ]
  /\ UNCHANGED <<savedData, savesResolved, savesRejected>>
  /\ UNCHANGED displayed
  /\ UNCHANGED editorVars

\* Mutant of StoredLineFormatTo: the value is stored as typed
StoredLineFormatToAsTyped(value) == value

\* Lines 355-359: what the "To" handler stores
StoredLineFormatTo(value) ==
  IF value = <<>> THEN DEFAULT_SETTINGS.lineFormatTo ELSE value

\* Lines 354-361
ChangeLineFormatTo(value) ==
  /\ displayed
  /\ settings' = [settings EXCEPT !.lineFormatTo = StoredLineFormatTo(value)]
  /\ saving' = saveSettings(saving, settings')
  /\ lastEdit' = [ field |-> "lineFormatTo", value |-> value, saved |-> <<settings'>> ]
  /\ UNCHANGED <<savedData, savesResolved, savesRejected>>
  /\ UNCHANGED <<displayed, invalidClass>>
  /\ UNCHANGED editorVars

\* Lines 371-374
ChangeRemoveLeadingWhitespace(value) ==
  /\ displayed
  /\ settings' = [settings EXCEPT !.removeLeadingWhitespace = value]
  /\ saving' = saveSettings(saving, settings')
  /\ lastEdit' = [ field |-> "removeLeadingWhitespace", value |-> <<>>, saved |-> <<settings'>> ]
  /\ UNCHANGED <<savedData, savesResolved, savesRejected>>
  /\ UNCHANGED <<displayed, invalidClass>>
  /\ UNCHANGED editorVars

\* The values typed in the text fields
LinkTextValues == { <<>>, <<"t">> }

TemplateValues ==
  { <<>>, DEFAULT_SETTINGS.copiedLinkText, DEFAULT_SETTINGS.lineFormatTo,
    <<"{","{","L","I","N","K","|","x","}","}">> }

FromValues == { <<>> } \cup PatternSamples

\* The panel on a plugin loaded with any of the settings drawn
InitSettings ==
  /\ doc = <<LineSamples[1]>>
  /\ selection = [ from |-> [line |-> 0, ch |-> 0], to |-> [line |-> 0, ch |-> 0] ]
  /\ settings \in SettingsSamples
  /\ InitRest

\* Number of edits of the panel so far
Edits == Len(saving) + savesResolved + savesRejected

CanEdit == Edits < MaxEdits

NextSettings ==
  \/ display
  \/ \E value \in LinkTextValues : CanEdit /\ ChangeLinkText(value)
  \/ \E value \in TemplateValues : CanEdit /\ ChangeCopiedLinkText(value)
  \/ \E value \in FromValues : CanEdit /\ ChangeLineFormatFrom(value)
  \/ \E value \in TemplateValues : CanEdit /\ ChangeLineFormatTo(value)
  \/ \E value \in BOOLEAN : CanEdit /\ ChangeRemoveLeadingWhitespace(value)
  \/ SaveResolve
  \/ SaveReject

SpecSettings == InitSettings /\ [][NextSettings]_vars

----------------------------------------------------------------------------
(* Properties *)

\* The last invocation was not aborted
Ran == last.ran /\ ~last.aborted

\* The range of the last invocation (0-based) and the document index (1-based)
\* of the k-th line it processed
FirstLine == last.selection.from.line
LastLine == last.selection.to.line
LineOf(k) == FirstLine + k

\* The text ends with an anchor token (a caret and one or more characters of
\* [a-zA-Z0-9-]) that whitespace or the start of the text precedes
EndsWithAnchorToken(s) ==
  \E i \in 1..(Len(s) - 1) :
    /\ s[i] = "^"
    /\ \A j \in (i + 1)..Len(s) : IsBlockIDChar(s[j])
    /\ (i = 1 \/ IsSpace(s[i - 1]))

\* The token occurs in the text somewhere else than after the "#" of a link
AppearsOutsideLink(text, token) ==
  \E i \in 1..Len(text) : OccursAt(text, token, i) /\ ~(i > 1 /\ text[i - 1] = "#")

\* The line with its trailing whitespace replaced by a space and the anchor
WithAnchor(orig, anchor) ==
  SubSeq(orig, 1, Len(orig) - TrailingSpace(orig)) \o <<" ">> \o anchor

\* A caret and IDLength characters of genID's alphabet
IsMintedAnchor(a) ==
  /\ Len(a) = IDLength + 1
  /\ a[1] = "^"
  /\ \A i \in 2..Len(a) : a[i] \in characters

\* C1: a command run again on a line that an earlier run anchored mints no new
\* anchor, leaves the line as the minting run left it and requests the link
\* with the anchor that run minted; no line ever carries more than one minted
\* anchor.
AnchorsIdempotent ==
  /\ \A l \in 1..Len(doc) : Len(minted[l]) <= 1
  /\ Ran =>
       \A k \in 1..Len(last.results) :
         LET l == LineOf(k)
             r == last.results[k]
         IN (r.request # <<>> /\ Len(minted[l]) > Len(r.newID)) =>
              /\ r.newID = <<>>
              /\ doc[l] = minted[l][1].line
              /\ r.request = << <<"#">> \o minted[l][1].newID >>

\* C1 witness: the second run processed a line the first run had anchored
AnchorReused ==
  /\ Ran
  /\ transactions = 2
  /\ \E k \in 1..Len(last.results) :
       /\ last.results[k].request # <<>>
       /\ last.results[k].newID = <<>>
       /\ minted[LineOf(k)] # <<>>

\* C2: when a line that already ends with an anchor goes through the anchor
\* step, the anchor token does not appear in the line's copied text outside
\* the generated link.
AnchorNotInCopy ==
  Ran =>
    \A k \in 1..Len(last.results) :
      LET r == last.results[k]
      IN (r.request # <<>> /\ r.newID = <<>> /\ r.copied # <<>>) =>
           ~AppearsOutsideLink(r.copied[1], Tail(r.request[1]))

\* C3: with a lineFormatFrom that does not compile, a command changes neither
\* the document nor the selection, starts no clipboard write, mints no anchor
\* and shows one error notice, which names the pattern.
InvalidPatternAborts ==
  (last.ran /\ ~RegExpCompiles(settings.lineFormatFrom)) =>
    /\ last.aborted
    /\ transactions = 0
    /\ doc = last.doc
    /\ selection = last.selection
    /\ pending = <<>> /\ resolved = 0 /\ rejected = 0 /\ clipboard = <<>>
    /\ copiedNotices = 0
    /\ \A l \in 1..Len(doc) : minted[l] = <<>>
    /\ Len(errorNotices) = 1
    /\ IndexOf(errorNotices[1], <<"\"">> \o settings.lineFormatFrom \o <<"\"">>) # 0

\* C3 witness: a command was run with the unterminated character class
AbortedOnInvalidPattern ==
  /\ last.ran
  /\ last.aborted
  /\ settings.lineFormatFrom = <<"[","a","b","c">>
  /\ last.selection.from.line < last.selection.to.line

\* C4: LinkOnly and LinkOnlyEmbed produce exactly one copy line, the link for
\* the first line of the selection.
LinkOnlyOneCopyLine ==
  (Ran /\ last.copy \in {"LinkOnly", "LinkOnlyEmbed"}) =>
    /\ Len(last.copiedLines) = 1
    /\ last.results[1].request # <<>>
    /\ LET link == generateMarkdownLink(file, last.results[1].request[1], settings.linkText)
       IN last.copiedLines[1] =
            IF last.copy = "LinkOnlyEmbed" THEN <<"!">> \o link
            ELSE SubstituteLink(settings.copiedLinkText, link)

\* C5: in a multi-line selection the copy slice of the first line runs from the
\* start column to the end of the line and that of the last line from column 0
\* to the end column; ["foo", "bar"] fully selected, CombinedLines, default
\* settings gives the source line "foo ^xxxxx" and the copy lines
\* "foo (see [[n#^xxxxx]])" and "bar".
CopySliceKeepsSelectedText ==
  (Ran /\ FirstLine < LastLine) =>
    LET first == last.doc[FirstLine + 1]
        final == last.doc[LastLine + 1]
    IN /\ last.results[1].slice = SubSeq(first, last.selection.from.ch + 1, Len(first))
       /\ last.results[Len(last.results)].slice = SubSeq(final, 1, last.selection.to.ch)
       /\ ( /\ last.doc = << <<"f","o","o">>, <<"b","a","r">> >>
            /\ last.selection = [ from |-> [line |-> 0, ch |-> 0], to |-> [line |-> 1, ch |-> 3] ]
            /\ last.copy = "CombinedLines"
            /\ settings = DEFAULT_SETTINGS ) =>
              \E id \in genID :
                /\ doc[1] = <<"f","o","o"," ","^">> \o id
                /\ last.copiedLines =
                     << <<"f","o","o"," ","(","s","e","e"," ","[","[","n","#","^">> \o id
                          \o <<"]","]",")">>,
                        <<"b","a","r">> >>

\* C6: every invocation that is not aborted applies its transaction whatever
\* becomes of its clipboard write, the edit stays applied afterwards, and no
\* "Copied" notice is shown without a clipboard write that resolved.
EditIndependentOfClipboard ==
  /\ copiedNotices <= resolved
  /\ transactions = Len(pending) + resolved + rejected
  /\ Ran => doc = SubSeq(last.doc, 1, FirstLine) \o updatedLines(last.results)
                    \o SubSeq(last.doc, LastLine + 2, Len(last.doc))

\* C6 witness: the write of a command that anchored a line has rejected
EditedAfterRejectedWrite ==
  /\ rejected = 1
  /\ copiedNotices = 0
  /\ transactions = 1
  /\ Ran
  /\ doc # last.doc

\* C7 as stated: copiedLinkText, lineFormatFrom and lineFormatTo are never
\* stored empty, and one of them that is cleared holds its default.
ClearedFieldHoldsDefault ==
  /\ settings.copiedLinkText # <<>>
  /\ settings.lineFormatFrom # <<>>
  /\ settings.lineFormatTo # <<>>
  /\ (lastEdit.field = "copiedLinkText" /\ lastEdit.value = <<>>) =>
       settings.copiedLinkText = DEFAULT_SETTINGS.copiedLinkText
  /\ (lastEdit.field = "lineFormatFrom" /\ lastEdit.value = <<>>) =>
       settings.lineFormatFrom = DEFAULT_SETTINGS.lineFormatFrom
  /\ (lastEdit.field = "lineFormatTo" /\ lastEdit.value = <<>>) =>
       settings.lineFormatTo = DEFAULT_SETTINGS.lineFormatTo

\* C7 amended: lineFormatFrom and lineFormatTo are never stored empty, and one
\* of them that is cleared holds its default; copiedLinkText is stored as typed.
ClearedFromToHoldDefault ==
  /\ settings.lineFormatFrom # <<>>
  /\ settings.lineFormatTo # <<>>
  /\ (lastEdit.field = "lineFormatFrom" /\ lastEdit.value = <<>>) =>
       settings.lineFormatFrom = DEFAULT_SETTINGS.lineFormatFrom
  /\ (lastEdit.field = "lineFormatTo" /\ lastEdit.value = <<>>) =>
       settings.lineFormatTo = DEFAULT_SETTINGS.lineFormatTo
  /\ lastEdit.field = "copiedLinkText" => settings.copiedLinkText = lastEdit.value

\* C7 witness: the "To" field was cleared while it held another template
ToFieldCleared ==
  /\ lastEdit.field = "lineFormatTo"
  /\ lastEdit.value = <<>>
  /\ settings.lineFormatTo = DEFAULT_SETTINGS.lineFormatTo
  /\ settings.lineFormatFrom = <<"o">>

\* C8: a line that ends with an anchor token preceded by whitespace or by the
\* start of the line is taken as anchored: the anchor step mints nothing and
\* leaves the line unchanged.
ExistingAnchorDetected ==
  Ran =>
    \A k \in 1..Len(last.results) :
      LET r == last.results[k]
          l == LineOf(k)
      IN (r.request # <<>> /\ EndsWithAnchorToken(last.doc[l])) =>
           (r.newID = <<>> /\ doc[l] = last.doc[l])

\* C9: an invocation that is not aborted keeps the number of lines, the lines
\* outside minLine..maxLine and the selection; a line of the range is as it was
\* or has its trailing whitespace replaced by a space and a newly minted
\* anchor; outside SeparateLines only the first line may change; a blank line
\* that is not the sole line of the selection is unchanged.
FrameEffect ==
  Ran =>
    /\ Len(doc) = Len(last.doc)
    /\ selection = last.selection
    /\ \A l \in 1..Len(last.doc) :
         LET orig == last.doc[l]
             inRange == FirstLine + 1 <= l /\ l <= LastLine + 1
         IN /\ ~inRange => doc[l] = orig
            /\ inRange =>
                 \/ doc[l] = orig
                 \/ /\ minted[l] # <<>>
                    /\ IsMintedAnchor(minted[l][Len(minted[l])].newID)
                    /\ doc[l] = WithAnchor(orig, minted[l][Len(minted[l])].newID)
            /\ (inRange /\ last.copy # "SeparateLines" /\ l # FirstLine + 1) => doc[l] = orig
            /\ (inRange /\ IsBlank(orig) /\ FirstLine # LastLine) => doc[l] = orig

\* C9 witness: SeparateLines over the last two lines of a document of three,
\* one of them blank and kept, the other anchored
TwoOfThreeLinesForwarded ==
  /\ Ran
  /\ last.copy = "SeparateLines"
  /\ Len(last.doc) = 3
  /\ FirstLine = 1
  /\ LastLine = 2
  /\ \E l \in (FirstLine + 1)..(LastLine + 1) : IsBlank(last.doc[l]) /\ doc[l] = last.doc[l]
  /\ \E l \in (FirstLine + 1)..(LastLine + 1) : doc[l] # last.doc[l]

\* C10: once the panel is displayed the class "invalid" is on the from-to rule
\* exactly when the stored lineFormatFrom fails validateRegex, and every edit
\* of the "From" field is stored (the default for the empty value) and handed
\* to saveData by the handler.
InvalidIndicatorTracksStored ==
  displayed =>
    /\ invalidClass <=> (validateRegex(settings.lineFormatFrom).valid # TRUE)
    /\ lastEdit.field = "lineFormatFrom" =>
         /\ lastEdit.saved = <<settings>>
         /\ settings.lineFormatFrom =
              IF lastEdit.value = <<>> THEN DEFAULT_SETTINGS.lineFormatFrom ELSE lastEdit.value

====
